---- MODULE Spec2Model ----
(***************************************************************************)
(* The global drag-and-drop state machine (dndStateReducer), the callback  *)
(* registry the DndNode components fill, the status each DndNode derives   *)
(* from the global state, and the three event handlers DndProviderComponent*)
(* gives to the pointer engine (onDragStart, onDragOver, onDragEnd).       *)
(*                                                                         *)
(* A JavaScript TypeError raised inside the reducer or inside a DndNode's  *)
(* status derivation is raised while React renders the provider's subtree, *)
(* so it tears that subtree down: `crashed` records it, and a dispatch made*)
(* afterwards (by a drop handler that settles later) reaches no reducer.   *)
(***************************************************************************)
EXTENDS Integers, Sequences, FiniteSets, TLC

VARIABLES
    state,      \* the useReducer state: [dragging, over, dropping]
    crashed,    \* TRUE once a reducer call or a DndNode render has thrown
    callbacks,  \* dragEventCallbacks: node id -> the props its DndNode registered
    inflight,   \* target ids of the drop handlers awaited by onDragEnd, oldest first
    active,     \* pointer engine: id of the node being dragged, or None
    overId,     \* pointer engine: id of the droppable under the pointer, or None
    last,       \* the last handler run: its name, the id of its event, what it dispatched
    overlay     \* DndOverlay: its props, and hasValue of its mounted content

vars == <<state, crashed, callbacks, inflight, active, overId, last, overlay>>

----------------------------------------------------------------------------
(* Bounds and values *)

\* The namespace prop of the DndNodes.
NS == "grid"

\* The id props of the DndNodes, which are also the ids of the app's entities.
IdProps == {"A", "B", "C"}

\* `${namespace}-${idProp}`: the fully-qualified id of a node or an entity.
QualifiedId(namespace, idProp) == namespace \o "-" \o idProp

\* Fully-qualified ids of the DndNodes.
Nodes == {QualifiedId(NS, idProp) : idProp \in IdProps}

\* Id of a droppable under the provider that is not a DndNode: it never registers.
Plain == "X"

\* The droppables the pointer engine can report.
Droppables == Nodes \cup {Plain}

\* At most this many DndNodes are mounted at a time.
MaxMounted == 2

\* The reducer is given states with at most this many snapshots in dropping.
MaxDropping == 1

\* The overlay is given at most this many entities.
MaxEntities == 7

\* The largest maxEntityCount prop the overlay is given.
MaxCount == 6

\* No node / no target (dragEvent.over is null).
None == "<none>"

\* The JavaScript value undefined (distinct from the string "undefined").
Undefined == "<undefined>"

\* String(v) of an id.
String(v) == IF v = Undefined THEN "undefined" ELSE v

----------------------------------------------------------------------------
(* Entities and maps *)

\* The entity a DndNode attaches to its draggable and droppable: {id, state, namespace}.
\* The plain droppable attaches an entity of the same shape.
NodeEntity(n) == [id |-> n, namespace |-> NS]

\* The entity onDragStart builds from a resolver's result: {id: sel.id, state: sel}.
SelectedEntity(n) == [id |-> n, namespace |-> Undefined]

\* The value null, and a Map object holding the entries m (key -> entry).
Null == [tag |-> "null"]
MapOf(m) == [tag |-> "Map", entries |-> m]
EmptyMap == MapOf(<<>>)
IsNull(o) == o.tag = "null"

\* Map.prototype.has / set on a Map object.
MapKeys(o) == DOMAIN o.entries
MapHas(o, k) == k \in MapKeys(o)
MapSet(o, k, v) ==
    MapOf([x \in MapKeys(o) \cup {k} |-> IF x = k THEN v ELSE o.entries[x]])

\* Map.prototype.delete on a Map object: the Map it leaves.
MapDelete(o, k) == MapOf([x \in MapKeys(o) \ {k} |-> o.entries[x]])

\* The property `id` read from a Map object: a Map has no such property.
MapIdProperty(o) == Undefined

initialGlobalDndState == [dragging |-> <<>>, over |-> EmptyMap, dropping |-> <<>>]

----------------------------------------------------------------------------
(* Actions of the state machine *)

DragStartAction(entities) == [type |-> "drag-start", payload |-> entities]
DragOverAction(entity) == [type |-> "drag-over", payload |-> entity]
DragLeaveAction == [type |-> "drag-leave"]
DragLeaveImmediate == [type |-> "drag-leave", payload |-> [immediate |-> TRUE]]
DragLeaveResolved(id) == [type |-> "drag-leave-resolved", payload |-> [id |-> id]]
DragCanceled == [type |-> "drag-canceled"]
DropPending == [type |-> "drop-pending"]
DropResolved(id) == [type |-> "drop-resolved", payload |-> [id |-> id]]
DropCanceled(id) == [type |-> "drop-canceled", payload |-> [id |-> id]]

HasPayload(a) == "payload" \in DOMAIN a

\* action.payload.id where the payload is an object.
PayloadId(a) == IF "id" \in DOMAIN a.payload THEN a.payload.id ELSE Undefined

----------------------------------------------------------------------------
(* dndStateReducer *)

\* {...current, status: "leave"} with current = state.over.get(k).
LeaveEntry(o, k) ==
    IF MapHas(o, k) THEN [o.entries[k] EXCEPT !.status = "leave"]
    ELSE [status |-> "leave"]

\* drop.over.id of a snapshot whose over is a Map.
SnapshotOverId(drop) == MapIdProperty(drop.over)

\* The reducer call raises a TypeError:
\*   drag-over            state.over.set on null
\*   drag-leave           action.payload.id with no payload; state.over.get on null
\*   drag-leave-resolved  state.over.delete on null; new Map(<boolean>) otherwise
\*   drop-resolved/-canceled  drop.over.id of a snapshot whose over is null
ReducerThrows(st, a) ==
    CASE a.type = "drag-over" -> IsNull(st.over)
      [] a.type = "drag-leave" -> ~HasPayload(a) \/ IsNull(st.over)
      [] a.type = "drag-leave-resolved" -> TRUE
      [] a.type \in {"drop-resolved", "drop-canceled"} ->
            \E i \in 1..Len(st.dropping) : IsNull(st.dropping[i].over)
      [] OTHER -> FALSE

\* dndStateReducer with a drop-pending case that leaves an empty Map in over.
dndStateReducerEmptyOver(st, a) ==
    CASE a.type = "drag-start" -> [st EXCEPT !.dragging = a.payload]
      [] a.type = "drag-canceled" -> [st EXCEPT !.dragging = <<>>]
      [] a.type = "drag-over" ->
            [st EXCEPT !.over = MapSet(st.over, a.payload.id,
                                       [status |-> "over", entity |-> a.payload])]
      [] a.type = "drag-leave" ->
            [st EXCEPT !.over = MapSet(st.over, PayloadId(a),
                                       LeaveEntry(st.over, PayloadId(a)))]
      [] a.type = "drop-pending" ->
            [dragging |-> <<>>,
             over |-> EmptyMap,
             dropping |-> Append(st.dropping,
                                 [dragging |-> st.dragging, over |-> st.over])]
      [] a.type \in {"drop-resolved", "drop-canceled"} ->
            [st EXCEPT !.dropping =
                SelectSeq(st.dropping,
                          LAMBDA drop : SnapshotOverId(drop) # a.payload.id)]
      [] OTHER -> st

\* dndStateReducer with a drag-canceled case that also empties over.
dndStateReducerCanceledEmptiesOver(st, a) ==
    CASE a.type = "drag-start" -> [st EXCEPT !.dragging = a.payload]
      [] a.type = "drag-canceled" -> [st EXCEPT !.dragging = <<>>, !.over = EmptyMap]
      [] a.type = "drag-over" ->
            [st EXCEPT !.over = MapSet(st.over, a.payload.id,
                                       [status |-> "over", entity |-> a.payload])]
      [] a.type = "drag-leave" ->
            [st EXCEPT !.over = MapSet(st.over, PayloadId(a),
                                       LeaveEntry(st.over, PayloadId(a)))]
      [] a.type = "drop-pending" ->
            [dragging |-> <<>>,
             over |-> Null,
             dropping |-> Append(st.dropping,
                                 [dragging |-> st.dragging, over |-> st.over])]
      [] a.type \in {"drop-resolved", "drop-canceled"} ->
            [st EXCEPT !.dropping =
                SelectSeq(st.dropping,
                          LAMBDA drop : SnapshotOverId(drop) # a.payload.id)]
      [] OTHER -> st

\* The state the reducer returns when the call does not throw.
dndStateReducer(st, a) ==
    CASE a.type = "drag-start" -> [st EXCEPT !.dragging = a.payload]
      [] a.type = "drag-canceled" -> [st EXCEPT !.dragging = <<>>]
      [] a.type = "drag-over" ->
            [st EXCEPT !.over = MapSet(st.over, a.payload.id,
                                       [status |-> "over", entity |-> a.payload])]
      [] a.type = "drag-leave" ->
            [st EXCEPT !.over = MapSet(st.over, PayloadId(a),
                                       LeaveEntry(st.over, PayloadId(a)))]
      [] a.type = "drop-pending" ->
            [dragging |-> <<>>,
             over |-> Null,
             dropping |-> Append(st.dropping,
                                 [dragging |-> st.dragging, over |-> st.over])]
      [] a.type \in {"drop-resolved", "drop-canceled"} ->
            [st EXCEPT !.dropping =
                SelectSeq(st.dropping,
                          LAMBDA drop : SnapshotOverId(drop) # a.payload.id)]
      [] OTHER -> st

\* The contents of the state object passed to the reducer once the call has
\* returned or thrown. state.over.set and state.over.delete act on the Map of
\* that object before new Map(...) copies it; a call that throws on the action
\* or on a null over has not reached them.
StateArgumentAfter(st, a) ==
    CASE a.type = "drag-over" /\ ~IsNull(st.over) ->
            [st EXCEPT !.over = MapSet(st.over, a.payload.id,
                                       [status |-> "over", entity |-> a.payload])]
      [] a.type = "drag-leave" /\ HasPayload(a) /\ ~IsNull(st.over) ->
            [st EXCEPT !.over = MapSet(st.over, PayloadId(a),
                                       LeaveEntry(st.over, PayloadId(a)))]
      [] a.type = "drag-leave-resolved" /\ ~IsNull(st.over) ->
            [st EXCEPT !.over = MapDelete(st.over, a.payload.id)]
      [] OTHER -> st

\* The actions of one handler run, applied in the order dispatched; the run stops
\* at the first reducer call that throws.
RECURSIVE Reduce(_, _)
Reduce(r, acts) ==
    IF acts = <<>> \/ r.thrown THEN r
    ELSE IF ReducerThrows(r.state, Head(acts))
         THEN [state |-> r.state, thrown |-> TRUE]
         ELSE Reduce([state |-> dndStateReducer(r.state, Head(acts)), thrown |-> FALSE],
                     Tail(acts))

----------------------------------------------------------------------------
(* DndNode: the status a node derives from the global state *)

IsDragging(st, id) == \E i \in 1..Len(st.dragging) : st.dragging[i].id = id

\* Indexes of the snapshots dndContext.dropping.find accepts for the node.
PendingFor(st, id) ==
    {i \in 1..Len(st.dropping) :
        ~IsNull(st.dropping[i].over) /\ SnapshotOverId(st.dropping[i]) = id}

\* The derivation raises a TypeError: dndContext.over.has on null, or
\* pending.over.id of a snapshot whose over is null, met before a match.
StatusThrows(st, id) ==
    \/ IsNull(st.over)
    \/ /\ ~MapHas(st.over, id)
       /\ ~IsDragging(st, id)
       /\ \E i \in 1..Len(st.dropping) :
            /\ IsNull(st.dropping[i].over)
            /\ \A j \in PendingFor(st, id) : i < j

\* {status, dragging} of the node when the derivation does not throw.
DeriveStatus(st, id) ==
    IF MapHas(st.over, id) THEN [status |-> "over", dragging |-> st.dragging]
    ELSE IF IsDragging(st, id) THEN [status |-> "dragging", dragging |-> st.dragging]
    ELSE IF PendingFor(st, id) # {}
         THEN LET i == CHOOSE k \in PendingFor(st, id) :
                            \A j \in PendingFor(st, id) : k <= j
              IN [status |-> "over-pending", dragging |-> st.dropping[i].dragging]
         ELSE [status |-> "idle", dragging |-> <<>>]

\* Rendering the mounted DndNodes against the state throws.
RenderThrows(st, cbs) == \E n \in DOMAIN cbs : StatusThrows(st, n)

----------------------------------------------------------------------------
(* DndNode props and the callback registry *)

\* The ids of the entities a node's onDragStart prop returns when the app has a
\* selection.
Selection == <<"A", "B">>

\* Props of a DndNode that its behaviour depends on:
\*   enableDrag    the draggable is enabled (default true)
\*   enableDrop    "undefined", or the value the predicate returns
\*   onDrop        the node has an onDrop prop
\*   dropPromise   a descendant set onDropPromise.current (useRegisterDropPromise)
\*   leavePromise  a descendant set onLeavePromise.current (useRegisterLeavePromise)
\*   onDragStart   "undefined", or what the resolver returns: "empty" or "selection"
Props(drag, drop, onDrop, dropPromise, leavePromise, start) ==
    [enableDrag |-> drag, enableDrop |-> drop, onDrop |-> onDrop,
     dropPromise |-> dropPromise, leavePromise |-> leavePromise, onDragStart |-> start]

PropsChoices ==
    { Props(TRUE, "undefined", FALSE, FALSE, FALSE, "undefined"),
      Props(FALSE, "true", FALSE, FALSE, FALSE, "undefined"),
      Props(FALSE, "false", FALSE, FALSE, FALSE, "undefined"),
      Props(TRUE, "undefined", TRUE, TRUE, FALSE, "undefined"),
      Props(TRUE, "undefined", TRUE, FALSE, FALSE, "empty"),
      Props(TRUE, "true", TRUE, TRUE, TRUE, "selection") }

\* A set(id, fns) that leaves a registry holding the entry of id alone.
RegistrySetAlone(m, id, fns) == [x \in {id} |-> fns]

\* callbacks.set(id, fns) on the registry Map: a new entry, or the entry of id
\* replaced.
RegistrySet(m, id, fns) == [x \in DOMAIN m \cup {id} |-> IF x = id THEN fns ELSE m[x]]

\* callbacks.delete(id).
RegistryDelete(m, id) == [x \in DOMAIN m \ {id} |-> m[x]]

\* dragEventCallbacks.get(id): the registration, when there is one.
Registered(id) == id \in DOMAIN callbacks

\* fns?.onLeave, the value onLeavePromise.current() had when the node registered.
HasLeaveCallback(id) == Registered(id) /\ callbacks[id].leavePromise

\* fns?.onDrop: every registration holds handleDrop.
HasDropCallback(id) == Registered(id)

\* handleDrop throws before it returns a promise: onDrop(...) with no onDrop prop,
\* or onDropPromise.current() with no registered drop promise.
HandleDropThrows(id) == ~callbacks[id].onDrop \/ ~callbacks[id].dropPromise

\* onDragStart(...args) of a node that has the prop: the ids of the entities.
ResolverResult(id) ==
    IF callbacks[id].onDragStart = "selection" THEN Selection ELSE <<>>

\* handleDragState that returns the resolver's ids as they are.
HandleDragStateUnqualified(id) == ResolverResult(id)

\* handleDragState: the ids of the resolver's entities, each qualified with the
\* node's namespace, when the node has a resolver; a single object, which has
\* no length, otherwise.
HandleDragState(id) ==
    IF callbacks[id].onDragStart = "undefined" THEN <<>>
    ELSE [i \in 1..Len(ResolverResult(id)) |-> QualifiedId(NS, ResolverResult(id)[i])]

\* The payload onDragStart dispatches.
DragStartEntities(id) ==
    IF Registered(id) /\ Len(HandleDragState(id)) > 0
    THEN [i \in 1..Len(HandleDragState(id)) |-> SelectedEntity(HandleDragState(id)[i])]
    ELSE <<NodeEntity(id)>>

----------------------------------------------------------------------------
(* DndOverlay *)

\* maxEntityCount = 5: the value of the prop when it is not given.
DefaultMaxEntityCount == 5

\* The props of DndOverlay, and hasValue of useMotionValueMousePosition, which
\* is false when DndOverlayContent mounts.
OverlayProps(isShowing, entities, maxEntityCount) ==
    [isShowing |-> isShowing, entities |-> entities,
     maxEntityCount |-> maxEntityCount, hasValue |-> FALSE]

\* entities.slice(0, end), end >= 0.
Slice(entities, end) ==
    SubSeq(entities, 1, IF end < Len(entities) THEN end ELSE Len(entities))

\* DndOverlayContent that puts the badge on the first entity when some entity
\* is left out.
DndOverlayContentBadgeWhenCut(entities, maxEntityCount, hasValue) ==
    IF ~hasValue THEN [null |-> TRUE, children |-> <<>>]
    ELSE [null |-> FALSE,
          children |->
            [i \in 1..Len(Slice(entities, maxEntityCount)) |->
                [entity |-> Slice(entities, maxEntityCount)[i],
                 badge |-> IF i = 1 /\ Len(entities) > maxEntityCount
                           THEN <<Len(entities)>> ELSE <<>>]]]

\* What DndOverlayContent returns: null before the first mousemove; then one
\* positioned element per entity of entities.slice(0, maxEntityCount), the
\* first of them with the badge of the total when more than one entity is given.
DndOverlayContent(entities, maxEntityCount, hasValue) ==
    IF ~hasValue THEN [null |-> TRUE, children |-> <<>>]
    ELSE [null |-> FALSE,
          children |->
            [i \in 1..Len(Slice(entities, maxEntityCount)) |->
                [entity |-> Slice(entities, maxEntityCount)[i],
                 badge |-> IF i = 1 /\ Len(entities) > 1
                           THEN <<Len(entities)>> ELSE <<>>]]]

\* What DndOverlay renders: the content in a portal when isShowing.
DndOverlay(o) ==
    IF o.isShowing
    THEN DndOverlayContent(o.entities, o.maxEntityCount, o.hasValue)
    ELSE [null |-> TRUE, children |-> <<>>]

----------------------------------------------------------------------------
(* The provider: dispatch, and the state after construction *)

\* dispatch of the actions of one handler run, and the render that follows.
Dispatch(acts) ==
    IF crashed \/ acts = <<>>
    THEN UNCHANGED <<state, crashed>>
    ELSE LET r == Reduce([state |-> state, thrown |-> FALSE], acts)
         IN /\ state' = r.state
            /\ crashed' = (r.thrown \/ RenderThrows(r.state, callbacks))

Ran(handler, id, acts) == [handler |-> handler, id |-> id, actions |-> acts]

Init ==
    /\ state = initialGlobalDndState
    /\ crashed = FALSE
    /\ callbacks = <<>>
    /\ inflight = <<>>
    /\ active = None
    /\ overId = None
    /\ last = Ran("none", None, <<>>)
    /\ overlay = OverlayProps(FALSE, <<>>, DefaultMaxEntityCount)

----------------------------------------------------------------------------
(* DndNode mount, re-render and unmount *)

\* The layout effect of a DndNode: callbacks.set(id, ...), after the node rendered.
Register(n, props) ==
    /\ ~crashed
    /\ IF Registered(n) THEN callbacks[n] # props
       ELSE Cardinality(DOMAIN callbacks) < MaxMounted
    /\ callbacks' = RegistrySet(callbacks, n, props)
    /\ crashed' = StatusThrows(state, n)
    /\ last' = Ran("none", None, <<>>)
    /\ UNCHANGED <<state, inflight, active, overId, overlay>>

\* The cleanup of the layout effect when the node unmounts: callbacks.delete(id).
\* The node is neither the one being dragged nor the one under the pointer.
Unregister(n) ==
    /\ ~crashed
    /\ Registered(n)
    /\ n # active
    /\ n # overId
    /\ callbacks' = RegistryDelete(callbacks, n)
    /\ last' = Ran("none", None, <<>>)
    /\ UNCHANGED <<state, crashed, inflight, active, overId, overlay>>

----------------------------------------------------------------------------
(* The handlers DndProviderComponent gives to the pointer engine *)

\* onDragStart: the engine starts a drag of an enabled draggable.
OnDragStart(n) ==
    /\ ~crashed
    /\ active = None
    /\ Registered(n) /\ callbacks[n].enableDrag
    /\ active' = n
    /\ overId' = None
    /\ Dispatch(<<DragStartAction(DragStartEntities(n))>>)
    /\ last' = Ran("onDragStart", n, <<DragStartAction(DragStartEntities(n))>>)
    /\ UNCHANGED <<callbacks, inflight, overlay>>

\* What onDragOver dispatches for an event whose over id is t.
DragOverDispatches(t) ==
    IF t = None
    THEN IF HasLeaveCallback(Undefined)
         THEN <<DragLeaveAction, DragLeaveResolved(String(Undefined))>>
         ELSE <<DragLeaveImmediate>>
    ELSE IF IsDragging(state, t) THEN <<>>
    ELSE IF Registered(t) /\ callbacks[t].enableDrop = "false"
         THEN <<DragLeaveAction>>
         ELSE <<DragOverAction(NodeEntity(t))>>

\* onDragOver: the droppable under the pointer changed to t (None: no droppable).
\* The droppables are the mounted DndNodes, but the one being dragged (its
\* droppable is disabled), and the plain droppable.
OnDragOver(t) ==
    /\ ~crashed
    /\ active # None
    /\ t \in {None, Plain} \/ Registered(t)
    /\ t # overId
    /\ t # active
    /\ overId' = t
    /\ Dispatch(DragOverDispatches(t))
    /\ last' = Ran("onDragOver", t, DragOverDispatches(t))
    /\ UNCHANGED <<callbacks, inflight, active, overlay>>

\* What onDragEnd dispatches before it returns or awaits the drop handler.
DragEndDispatches(t) ==
    IF t = None THEN <<DragCanceled>>
    ELSE IF ~HasDropCallback(t) THEN <<DropResolved(String(t))>>
    ELSE IF HandleDropThrows(t) THEN <<DropPending, DropCanceled(String(t))>>
    ELSE <<DropPending>>

\* onDragEnd: the pointer is released over overId.
OnDragEnd ==
    /\ ~crashed
    /\ active # None
    /\ active' = None
    /\ overId' = None
    /\ Dispatch(DragEndDispatches(overId))
    /\ inflight' = IF overId # None /\ HasDropCallback(overId) /\ ~HandleDropThrows(overId)
                   THEN Append(inflight, overId)
                   ELSE inflight
    /\ last' = Ran("onDragEnd", overId, DragEndDispatches(overId))
    /\ UNCHANGED <<callbacks, overlay>>

\* The promise of the i-th awaited drop handler settles; onDragEnd resumes.
SettleDrop(i, fulfilled) ==
    /\ i \in 1..Len(inflight)
    /\ LET id == inflight[i]
           act == IF fulfilled THEN DropResolved(String(id)) ELSE DropCanceled(String(id))
       IN /\ Dispatch(<<act>>)
          /\ last' = Ran(IF fulfilled THEN "fulfilled" ELSE "rejected", id, <<act>>)
    /\ inflight' = [k \in 1..(Len(inflight) - 1) |->
                        IF k < i THEN inflight[k] ELSE inflight[k + 1]]
    /\ UNCHANGED <<callbacks, active, overId, overlay>>

Next ==
    \/ \E n \in Nodes, props \in PropsChoices : Register(n, props)
    \/ \E n \in Nodes : Unregister(n)
    \/ \E n \in Nodes : OnDragStart(n)
    \/ \E t \in Droppables \cup {None} : OnDragOver(t)
    \/ OnDragEnd
    \/ \E i \in 1..Len(inflight), fulfilled \in BOOLEAN : SettleDrop(i, fulfilled)

Spec == Init /\ [][Next]_vars

----------------------------------------------------------------------------
(* The callback registry on its own: nodes mount, re-render and unmount *)

NextRegistry ==
    \/ \E n \in Nodes, props \in PropsChoices : Register(n, props)
    \/ \E n \in Nodes : Unregister(n)

SpecRegistry == Init /\ [][NextRegistry]_vars

----------------------------------------------------------------------------
(* dndStateReducer on its own, applied to the states of its type *)

\* The ids the entities and the actions given to the reducer carry.
ReducerIds == {QualifiedId(NS, "A"), QualifiedId(NS, "B")}

\* The values of GlobalDndState.over: a Map from ids to {status, entity}.
OverMaps ==
    UNION {[keys -> {"over", "leave"}] : keys \in SUBSET ReducerIds}

OverMap(statuses) ==
    MapOf([k \in DOMAIN statuses |-> [status |-> statuses[k], entity |-> NodeEntity(k)]])

\* The values of GlobalDndState.dragging.
DraggingValues == {<<>>} \cup {<<NodeEntity(n)>> : n \in ReducerIds}

\* The snapshots of GlobalDndState.dropping: {dragging, over}.
Snapshots ==
    {[dragging |-> d, over |-> OverMap(o)] : d \in DraggingValues, o \in OverMaps}

\* The values of GlobalDndState, with at most MaxDropping snapshots.
ReducerStates ==
    {[dragging |-> d, over |-> OverMap(o), dropping |-> q] :
        d \in DraggingValues, o \in OverMaps,
        q \in UNION {[1..k -> Snapshots] : k \in 0..MaxDropping}}

InitReducer ==
    /\ state \in ReducerStates
    /\ crashed = FALSE
    /\ callbacks = <<>>
    /\ inflight = <<>>
    /\ active = None
    /\ overId = None
    /\ last = Ran("none", None, <<>>)
    /\ overlay = OverlayProps(FALSE, <<>>, DefaultMaxEntityCount)

\* dispatch(a): one call of the reducer. last.input is the state object the
\* call was given, as the call leaves it.
ApplyAction(a) ==
    /\ ~crashed
    /\ a.type = "drop-pending" => Len(state.dropping) < MaxDropping
    /\ Dispatch(<<a>>)
    /\ last' = [handler |-> "dispatch", id |-> None, actions |-> <<a>>,
                input |-> StateArgumentAfter(state, a)]
    /\ UNCHANGED <<callbacks, inflight, active, overId, overlay>>

NextReducer ==
    \/ \E n \in ReducerIds : ApplyAction(DragStartAction(<<NodeEntity(n)>>))
    \/ \E n \in ReducerIds : ApplyAction(DragOverAction(NodeEntity(n)))
    \/ ApplyAction(DragLeaveAction)
    \/ ApplyAction(DragLeaveImmediate)
    \/ \E id \in ReducerIds \cup {String(Undefined)} : ApplyAction(DragLeaveResolved(id))
    \/ ApplyAction(DragCanceled)
    \/ ApplyAction(DropPending)
    \/ \E id \in ReducerIds : ApplyAction(DropResolved(id))
    \/ \E id \in ReducerIds : ApplyAction(DropCanceled(id))

SpecReducer == InitReducer /\ [][NextReducer]_vars

----------------------------------------------------------------------------
(* DndOverlay on its own, with the props a parent can give it *)

\* The first n of the entities a parent drags.
OverlayEntities(n) == [i \in 1..n |-> NodeEntity(QualifiedId(NS, ToString(i)))]

\* The parent renders DndOverlay with other props. The content keeps hasValue
\* while it stays mounted, and mounts with hasValue false.
RenderOverlay(isShowing, n, maxEntityCount) ==
    /\ OverlayProps(isShowing, OverlayEntities(n), maxEntityCount) #
            [overlay EXCEPT !.hasValue = FALSE]
    /\ overlay' = [OverlayProps(isShowing, OverlayEntities(n), maxEntityCount)
                     EXCEPT !.hasValue = isShowing /\ overlay.isShowing /\ overlay.hasValue]
    /\ UNCHANGED <<state, crashed, callbacks, inflight, active, overId, last>>

\* handleMouseMove of the mounted content: setHasValue(true).
MouseMove ==
    /\ overlay.isShowing
    /\ overlay' = [overlay EXCEPT !.hasValue = TRUE]
    /\ UNCHANGED <<state, crashed, callbacks, inflight, active, overId, last>>

NextOverlay ==
    \/ \E isShowing \in BOOLEAN, n \in 0..MaxEntities,
          maxEntityCount \in (0..MaxCount) \cup {DefaultMaxEntityCount} :
            RenderOverlay(isShowing, n, maxEntityCount)
    \/ MouseMove

SpecOverlay == Init /\ [][NextOverlay]_vars

----------------------------------------------------------------------------
(* Vocabulary of the properties *)

\* Keys of an over value, none when it is null.
OverKeys(o) == IF IsNull(o) THEN {} ELSE MapKeys(o)

\* A snapshot captured while the pointer was over the target id.
SnapshotFor(drop, id) == id \in OverKeys(drop.over)

\* Indexes of the snapshots in dropping captured for the target id.
SnapshotsFor(st, id) == {i \in 1..Len(st.dropping) : SnapshotFor(st.dropping[i], id)}

\* The state the k-th action of a handler run is applied to.
StateBefore(st, acts, k) == Reduce([state |-> st, thrown |-> FALSE], SubSeq(acts, 1, k - 1))

\* The state a dispatch of acts leaves, from the current one.
StateAfter(acts) ==
    IF crashed THEN state ELSE Reduce([state |-> state, thrown |-> FALSE], acts).state

----------------------------------------------------------------------------
(* Properties *)

\* C1: a drag end over a target whose drop handler fulfils later dispatches
\* drop-pending first, after which dragging and over are empty and dropping holds
\* a snapshot for the target; when the promise fulfils, drop-resolved(target) is
\* dispatched, after which dropping holds no snapshot for the target.
C1_DropPendingThenResolved ==
    /\ (last.handler = "onDragEnd" /\ last.actions = <<DropPending>>) =>
            /\ state.dragging = <<>>
            /\ state.over = EmptyMap
            /\ SnapshotsFor(state, last.id) # {}
    /\ last.handler = "fulfilled" =>
            /\ last.actions = <<DropResolved(last.id)>>
            /\ SnapshotsFor(state, last.id) = {}

\* C2: when the drop handler of a target rejects, drop-canceled(target) is
\* dispatched, the resulting state is the one a fulfilment would have left, and
\* the target's snapshot is removed from dropping.
C2_RejectedRemovesSnapshot ==
    [][last'.handler = "rejected" =>
            /\ last'.actions = <<DropCanceled(last'.id)>>
            /\ state' = StateAfter(<<DropResolved(last'.id)>>)
            /\ SnapshotsFor(state', last'.id) = {}]_vars

\* C3: every application of drop-resolved(id) or drop-canceled(id) removes from
\* dropping exactly the snapshots captured for the target id and leaves the other
\* snapshots, dragging and over as they were.
C3_SettleRemovesMatching ==
    [][\A k \in 1..Len(last'.actions) :
            (/\ ~crashed
             /\ last'.actions[k].type \in {"drop-resolved", "drop-canceled"}
             /\ ~StateBefore(state, last'.actions, k).thrown
             /\ ~ReducerThrows(StateBefore(state, last'.actions, k).state, last'.actions[k]))
            => LET pre == StateBefore(state, last'.actions, k).state
                   id == last'.actions[k].payload.id
               IN dndStateReducer(pre, last'.actions[k]) =
                    [pre EXCEPT !.dropping =
                        SelectSeq(pre.dropping, LAMBDA drop : ~SnapshotFor(drop, id))]]_vars

\* C4: applying drop-pending yields empty dragging, an empty over mapping, and the
\* previous dropping with one snapshot appended that holds the previous dragging
\* and the previous over.
C4_DropPendingClears ==
    [][(~crashed /\ last'.actions = <<DropPending>>) =>
            /\ state'.dragging = <<>>
            /\ state'.over = EmptyMap
            /\ state'.dropping =
                 Append(state.dropping, [dragging |-> state.dragging, over |-> state.over])]_vars

\* C5: after any drag-over action, over holds exactly one entry, that of the
\* target hovered last.
C5_OverHoldsLastHovered ==
    (last.handler = "onDragOver" /\ last.actions = <<DragOverAction(NodeEntity(last.id))>>) =>
        /\ OverKeys(state.over) = {last.id}
        /\ state.over.entries[last.id] = [status |-> "over", entity |-> NodeEntity(last.id)]

\* C6: no node id is both in dragging and a key of over, and a drag-over event
\* on a node that is being dragged changes no state.
C6_NoSelfHover ==
    [][/\ \A n \in Droppables : ~(IsDragging(state', n) /\ n \in OverKeys(state'.over))
       /\ (last'.handler = "onDragOver" /\ last'.id # None /\ IsDragging(state, last'.id))
            => (last'.actions = <<>> /\ state' = state)]_vars

\* C7: a drag-over event on a node whose enable-drop predicate returns false
\* dispatches drag-leave, the state machine accepts it, and over has no entry for
\* the node afterwards.
C7_RefusedHoverLeaves ==
    (/\ last.handler = "onDragOver"
     /\ Registered(last.id)
     /\ callbacks[last.id].enableDrop = "false"
     /\ ~IsDragging(state, last.id))
    => /\ last.actions = <<DragLeaveAction>>
       /\ ~crashed
       /\ last.id \notin OverKeys(state.over)

\* C8: when the pointer leaves a hovered target whose registration has a leave
\* handler, drag-leave is dispatched and the target's entry is marked "leave"
\* until drag-leave-resolved removes it: no entry of the target stays "over".
C8_LeaveWithHandler ==
    [][(/\ last'.handler = "onDragOver" /\ last'.id = None
        /\ overId \in OverKeys(state.over)
        /\ HasLeaveCallback(overId))
       => /\ last'.actions # <<>>
          /\ Head(last'.actions) = DragLeaveAction
          /\ ~crashed'
          /\ overId \in OverKeys(state'.over) => state'.over.entries[overId].status = "leave"]_vars

\* The status and dragging sequence the precedence order gives a node.
ClaimedStatus(st, id) ==
    IF id \in OverKeys(st.over) THEN [status |-> "over", dragging |-> st.dragging]
    ELSE IF IsDragging(st, id) THEN [status |-> "dragging", dragging |-> st.dragging]
    ELSE IF SnapshotsFor(st, id) # {}
         THEN LET i == CHOOSE k \in SnapshotsFor(st, id) :
                            \A j \in SnapshotsFor(st, id) : k <= j
              IN [status |-> "over-pending", dragging |-> st.dropping[i].dragging]
         ELSE [status |-> "idle", dragging |-> <<>>]

\* C9: the status a node derives is the first match of over, dragging,
\* over-pending, idle, with the dragging sequence of that case; the target of an
\* in-flight drop reports over-pending with the snapshot's dragging.
C9_StatusPrecedence ==
    \A n \in Nodes :
        /\ ~StatusThrows(state, n)
        /\ DeriveStatus(state, n) = ClaimedStatus(state, n)

\* C10: dragging is non-empty only while a drag gesture is active or a drop is
\* pending; after any drag end dragging is empty.
C10_DraggingOnlyWhileActive ==
    state.dragging # <<>> => (active # None \/ inflight # <<>>)

AcceptsNewGesture(n, t) ==
    LET r == Reduce([state |-> state, thrown |-> FALSE],
                    <<DragStartAction(<<NodeEntity(n)>>), DragOverAction(NodeEntity(t))>>)
    IN /\ ~r.thrown
       /\ r.state.dragging = <<NodeEntity(n)>>
       /\ t \in OverKeys(r.state.over)

\* C12: while a drop handler of an earlier gesture is unsettled, and after it
\* has settled, the provider still processes events, and a new drag-start
\* followed by a drag-over on a permitted target sets dragging to the new
\* payload and adds the target's entry to over.
C12_Reentrant ==
    (inflight # <<>> \/ last.handler \in {"fulfilled", "rejected"}) =>
        /\ ~crashed
        /\ \A n \in DOMAIN callbacks, t \in DOMAIN callbacks :
              (n # t /\ callbacks[n].enableDrag /\ callbacks[t].enableDrop # "false")
                  => AcceptsNewGesture(n, t)

\* C13: a drag end over a target that has no registration, or whose node has no
\* onDrop prop, dispatches exactly drop-resolved(target): no drop-pending, no
\* snapshot appended, no handler awaited and no failure reported.
C13_NoHandlerDropResolves ==
    [][(/\ last'.handler = "onDragEnd"
        /\ last'.id # None
        /\ IF Registered(last'.id) THEN ~callbacks[last'.id].onDrop ELSE TRUE)
       => (/\ last'.actions = <<DropResolved(String(last'.id))>>
           /\ state'.dropping = state.dropping
           /\ inflight' = inflight
           /\ ~crashed')]_vars

\* dragging a sequence, over a mapping, dropping a sequence of snapshots whose
\* over is a mapping.
WellFormed(st) ==
    /\ ~IsNull(st.over)
    /\ \A i \in 1..Len(st.dropping) : ~IsNull(st.dropping[i].over)

\* C14: every batch of actions a handler dispatches is reduced without a fault
\* to a well-formed state, and the render that follows does not fault either.
C14_ReducerNeverFaults ==
    [][(~crashed /\ last'.actions # <<>>)
       => LET r == Reduce([state |-> state, thrown |-> FALSE], last'.actions)
          IN /\ ~r.thrown
             /\ WellFormed(r.state)
             /\ ~crashed']_vars

\* The ids of a sequence of entities.
EntityIds(entities) == [i \in 1..Len(entities) |-> entities[i].id]

\* C15: onDragStart dispatches one drag-start whose payload is the resolver's
\* sequence with each id qualified by the node's namespace when the node has a
\* resolver that returns a non-empty sequence, and the engine's single entity
\* of the node otherwise; afterwards state.dragging is that payload, whatever
\* it held before.
C15_DragStartPayload ==
    [][last'.handler = "onDragStart" =>
        LET n == last'.id
            resolved == IF callbacks[n].onDragStart = "selection"
                        THEN <<"A", "B">> ELSE <<>>
        IN /\ last'.actions = <<DragStartAction(state'.dragging)>>
           /\ ~crashed'
           /\ IF resolved # <<>>
              THEN EntityIds(state'.dragging) = <<"grid-A", "grid-B">>
              ELSE state'.dragging = <<[id |-> n, namespace |-> "grid"]>>]_vars

\* A node whose resolver returned the two selected entities was dragged.
C15_Witness ==
    /\ last.handler = "onDragStart"
    /\ ~crashed
    /\ Len(state.dragging) = 2
    /\ IF Registered(last.id) THEN callbacks[last.id].onDragStart = "selection" ELSE FALSE

\* C16: a drag end with no target dispatches only drag-canceled; drag-canceled,
\* applied to any state, empties dragging and leaves over and dropping as
\* they were.
C16_DragCanceledFrame ==
    [][/\ (last'.handler = "onDragEnd" /\ last'.id = None) =>
            /\ last'.actions = <<DragCanceled>>
            /\ state'.dragging = <<>>
            /\ state'.over = state.over
            /\ state'.dropping = state.dropping
            /\ ~crashed'
       /\ ~ReducerThrows(state, DragCanceled)
       /\ dndStateReducer(state, DragCanceled) = [state EXCEPT !.dragging = <<>>]]_vars

\* A drag was released over no target while over held the entry of a target
\* hovered earlier.
C16_Witness ==
    /\ last.handler = "onDragEnd"
    /\ last.id = None
    /\ last.actions = <<DragCanceled>>
    /\ state.dragging = <<>>
    /\ OverKeys(state.over) # {}

\* lookup(id) in a registry: the entry found, or nothing (undefined).
Lookup(m, id) ==
    IF id \in DOMAIN m THEN [found |-> TRUE, fns |-> m[id]] ELSE [found |-> FALSE]

\* C17: after register(id, registration) lookup(id) is that registration,
\* whether or not id had an entry; after unregister(id) lookup(id) is
\* undefined; either operation leaves the lookup of every other id as it
\* was, and an id that never registered is never found.
C17_RegistryLookup ==
    [][/\ \A n \in Nodes, props \in PropsChoices :
            Register(n, props) =>
                /\ Lookup(callbacks', n) = [found |-> TRUE, fns |-> props]
                /\ \A x \in Nodes \ {n} : Lookup(callbacks', x) = Lookup(callbacks, x)
       /\ \A n \in Nodes :
            Unregister(n) =>
                /\ Lookup(callbacks', n) = [found |-> FALSE]
                /\ \A x \in Nodes \ {n} : Lookup(callbacks', x) = Lookup(callbacks, x)
       /\ Lookup(callbacks', Plain) = [found |-> FALSE]
       /\ Lookup(callbacks', Undefined) = [found |-> FALSE]]_vars

\* Two nodes have registered, the second after the first: each is found with
\* its own registration, and a third node is not found.
C17_Witness ==
    \E n \in Nodes, x \in Nodes, y \in Nodes :
        /\ Lookup(callbacks, n) =
              [found |-> TRUE, fns |-> Props(TRUE, "true", TRUE, TRUE, TRUE, "selection")]
        /\ Lookup(callbacks, x) =
              [found |-> TRUE,
               fns |-> Props(TRUE, "undefined", FALSE, FALSE, FALSE, "undefined")]
        /\ Lookup(callbacks, y) = [found |-> FALSE]

\* The badge the overlay shows: the numbers on the elements it renders.
Badges(out) == {i \in 1..Len(out.children) : out.children[i].badge # <<>>}

\* C18: the overlay, showing after a mousemove with a maxEntityCount of at
\* least one, renders the first min(n, maxEntityCount) of the n entities and
\* shows the count badge exactly when n > maxEntityCount.
C18_BadgeWhenMoreThanRendered ==
    (overlay.isShowing /\ overlay.hasValue /\ overlay.maxEntityCount >= 1) =>
        LET n == Len(overlay.entities)
            out == DndOverlay(overlay)
        IN /\ [i \in 1..Len(out.children) |-> out.children[i].entity] =
                    SubSeq(overlay.entities, 1,
                           IF n < overlay.maxEntityCount THEN n ELSE overlay.maxEntityCount)
           /\ (Badges(out) # {}) <=> (n > overlay.maxEntityCount)

\* C18, amended: nothing is rendered while the overlay is not showing or
\* before its first mousemove; after it the overlay renders the first
\* min(n, maxEntityCount) of the n entities, and the badge, which holds n, is
\* on the first of them exactly when n > 1 and maxEntityCount >= 1.
C18_OverlayRender ==
    LET n == Len(overlay.entities)
        out == DndOverlay(overlay)
    IN IF overlay.isShowing /\ overlay.hasValue
       THEN /\ [i \in 1..Len(out.children) |-> out.children[i].entity] =
                    SubSeq(overlay.entities, 1,
                           IF n < overlay.maxEntityCount THEN n ELSE overlay.maxEntityCount)
            /\ Badges(out) = IF n > 1 /\ overlay.maxEntityCount >= 1 THEN {1} ELSE {}
            /\ \A i \in Badges(out) : out.children[i].badge = <<n>>
       ELSE out.children = <<>>

\* The overlay shows more entities than it renders, after a mousemove: the
\* badge is on the first of the maxEntityCount elements.
C18_Witness ==
    /\ overlay.isShowing
    /\ overlay.hasValue
    /\ Len(overlay.entities) > overlay.maxEntityCount
    /\ overlay.maxEntityCount >= 2
    /\ Len(DndOverlay(overlay).children) = overlay.maxEntityCount
    /\ Badges(DndOverlay(overlay)) = {1}

\* The Map o without the key id.
WithoutKey(o, id) == MapOf([x \in MapKeys(o) \ {id} |-> o.entries[x]])

\* C19: drag-leave-resolved(id), applied to any state, returns the state with
\* the key id removed from over, every other entry of over, dragging and
\* dropping unchanged; when id is no key of over the state is unchanged.
C19_LeaveResolvedDeletesKey ==
    [][\A id \in ReducerIds \cup {String(Undefined)} :
            (/\ last'.handler = "dispatch"
             /\ last'.actions = <<DragLeaveResolved(id)>>
             /\ ~IsNull(state.over))
            => /\ ~crashed'
               /\ state' = [state EXCEPT !.over = WithoutKey(state.over, id)]]_vars

\* C20: when the pointer leaves a hovered target for no target and the
\* target's registration has no leave handler, the target's entry is gone from
\* over after the event, is never seen with the status "leave", and over
\* gains no key.
C20_LeaveWithoutHandler ==
    [][(/\ ~crashed
        /\ last'.handler = "onDragOver"
        /\ last'.id = None
        /\ overId # None
        /\ ~HasLeaveCallback(overId))
       => (/\ ~crashed'
           /\ overId \notin OverKeys(state'.over)
           /\ OverKeys(state'.over) \subseteq OverKeys(state.over)
           /\ \A k \in OverKeys(state'.over) :
                 state'.over.entries[k].status # "leave")]_vars

\* C21: a call of the reducer leaves the state it was given, its over mapping
\* included, with the contents it had, and every snapshot that is in dropping
\* after the call is one that was there before with the same contents, or
\* the snapshot of the state the call was given.
C21_InputUnchanged ==
    [][last'.handler = "dispatch" =>
        /\ last'.input = state
        /\ \A i \in 1..Len(state'.dropping) :
              \/ \E j \in 1..Len(state.dropping) : state'.dropping[i] = state.dropping[j]
              \/ state'.dropping[i] = [dragging |-> state.dragging, over |-> state.over]]_vars

\* C22: when the drop handler of a target settles, fulfilled or rejected, the
\* target's snapshot leaves dropping, the snapshot of every target whose
\* handler is still awaited stays, and once no started handler is awaited
\* dropping is empty.
C22_SettlementsInAnyOrder ==
    [][last'.handler \in {"fulfilled", "rejected"} =>
        /\ SnapshotsFor(state', last'.id) = {}
        /\ \A k \in 1..Len(inflight') :
              inflight'[k] # last'.id => SnapshotsFor(state', inflight'[k]) # {}
        /\ inflight' = <<>> => state'.dropping = <<>>]_vars

====
